---- MODULE Spec2Model ----
(***************************************************************************)
(* Numeric helpers and scene sequencing of the manim scenes                *)
(*   01_ExponentialSlopes.py  (get_slope_angle, fun1 = 2^x, fun2 = 3^x)    *)
(*   02_EulerNumber.py        (get_val, get_slope, a_tracker, x_tracker)   *)
(*   03_ComplexJRotation.py   (get_current_color, phasor exp(1j*theta))    *)
(*   04_EulerLiveVisualization.py (vector exp(1j*t))                       *)
(*                                                                         *)
(* Number systems used by the model                                        *)
(*  - Real scalars (x, a, a^x, slopes, slope angles) are decimal           *)
(*    fixed-point numbers of FracLimbs fractional limbs of radix Base,     *)
(*    held as sign and magnitude; a magnitude is a little-endian sequence  *)
(*    of NLimbs limbs.  TLC integers are 32 bit, so the arithmetic is      *)
(*    done limb by limb.  With Base = 10^4 and FracLimbs = 4 the           *)
(*    resolution is 1e-16, that of a binary64 number near 1.               *)
(*  - Angles of the rotation scenes are whole ticks of PI/12, where PI is  *)
(*    the float constant of the scripts (np.pi), not the real number pi.   *)
(***************************************************************************)
EXTENDS Integers, Sequences, FiniteSets, TLC

\* Radix of one limb and the number of fractional / integer limbs.
Base == 10000
FracLimbs == 4
IntLimbs == 2
NLimbs == FracLimbs + IntLimbs

(***************************************************************************)
(* Magnitudes: sequences of limbs, least significant first.                *)
(***************************************************************************)
Zeros(n) == [i \in 1..n |-> 0]

Limb(a, i) == IF i >= 1 /\ i <= Len(a) THEN a[i] ELSE 0

\* One pass of carry propagation: every limb but the last keeps its low
\* digit, and every limb receives what the limb below it holds above its low
\* digit.  The number held is the same before and after; limbs below Base^2
\* come out below 2 * Base - 1.
Shift(r) ==
    SubSeq([k \in 1..Len(r) |->
               (IF k < Len(r) THEN r[k] % Base ELSE r[k])
               + (IF k > 1 THEN r[k - 1] \div Base ELSE 0)], 1, Len(r))

\* Carry propagation over limbs below 2 * Base - 1, where a carry is 0 or 1:
\* limb k receives one when some limb j below it holds Base or more and every
\* limb between them holds at least Base - 1.  The last limb keeps all that
\* does not fit below it.
Carry(r) ==
    LET cin(k) == IF \E j \in 1..(k - 1) :
                         /\ r[j] >= Base
                         /\ \A i \in (j + 1)..(k - 1) : r[i] >= Base - 1
                  THEN 1 ELSE 0
    IN  SubSeq([k \in 1..Len(r) |->
                   IF k < Len(r) THEN (r[k] + cin(k)) % Base ELSE r[k] + cin(k)],
               1, Len(r))

\* The index of the most significant limb that is not 0, 0 when there is none.
TopLimb(a) ==
    IF \A i \in 1..Len(a) : a[i] = 0 THEN 0
    ELSE CHOOSE i \in 1..Len(a) : a[i] # 0 /\ \A j \in (i + 1)..Len(a) : a[j] = 0

\* -1, 0, 1 as a < b, a = b, a > b; both of the same length.
MagCmp(a, b) ==
    IF a = b THEN 0
    ELSE LET i == CHOOSE i \in 1..Len(a) :
                      a[i] # b[i] /\ \A j \in (i + 1)..Len(a) : a[j] = b[j]
         IN  IF a[i] < b[i] THEN -1 ELSE 1

MagIsZero(a) == a = Zeros(Len(a))

\* A result that does not fit NLimbs limbs is no magnitude at all: Overflow is
\* a value no operator of the model accepts, so TLC stops instead of wrapping.
Overflow == "overflow"

Fits(full, n) == \A i \in (n + 1)..Len(full) : full[i] = 0

\* The n low limbs of full, which must hold nothing above them.
Low(full, n) == IF Fits(full, n) THEN SubSeq(full, 1, n) ELSE Overflow

MagAdd(a, b) ==
    Low(Carry(SubSeq([i \in 1..(Len(a) + 1) |-> Limb(a, i) + Limb(b, i)],
                     1, Len(a) + 1)),
        Len(a))

\* a - b for a >= b: limb k lends 1 to the limbs below it when some limb j
\* below it falls short and no limb between them has anything to spare.
MagSub(a, b) ==
    LET n      == Len(a)
        d      == [i \in 1..n |-> a[i] - b[i]]
        bin(k) == IF \E j \in 1..(k - 1) :
                         /\ d[j] < 0
                         /\ \A i \in (j + 1)..(k - 1) : d[i] <= 0
                  THEN 1 ELSE 0
    IN  SubSeq([k \in 1..n |-> (d[k] - bin(k) + Base) % Base], 1, n)

\* a * k for a natural k of at most Base, in n limbs.
MagMulSmall(a, k, n) ==
    Low(Carry(Shift(SubSeq([i \in 1..(n + 1) |-> Limb(a, i) * k], 1, n + 1))), n)

\* floor(a / d) for a small natural d (d * Base fits an integer): limbs i..1
\* are still to divide, r is the running remainder, acc the limbs done.
RECURSIVE DivSmallFrom(_, _, _, _, _)
DivSmallFrom(a, d, i, r, acc) ==
    IF i = 0 THEN acc
    ELSE LET cur == r * Base + a[i]
         IN  DivSmallFrom(a, d, i - 1, cur % d, <<cur \div d>> \o acc)

MagDivSmall(a, d) == DivSmallFrom(a, d, Len(a), 0, <<>>)

\* Sum over i in lo..hi of a[i] * b[k + 1 - i], by halves.
RECURSIVE ConvSum(_, _, _, _, _)
ConvSum(a, b, k, lo, hi) ==
    IF lo > hi THEN 0
    ELSE IF lo = hi THEN a[lo] * b[k + 1 - lo]
    ELSE LET mid == (lo + hi) \div 2
         IN  ConvSum(a, b, k, lo, mid) + ConvSum(a, b, k, mid + 1, hi)

\* Limb k of the raw product of two magnitudes of n limbs sums the
\* a[i] * b[k + 1 - i] with both indices in 1..n.
RawProduct(a, b, n) ==
    SubSeq([k \in 1..(2 * n) |->
               ConvSum(a, b, k, IF k > n THEN k + 1 - n ELSE 1, IF k > n THEN n ELSE k)],
           1, 2 * n)

\* The n limbs of the product full above its FracLimbs lowest, which are cut.
Truncated(full, n) ==
    IF SubSeq(full, n + FracLimbs + 1, 2 * n) = Zeros(n - FracLimbs)
    THEN SubSeq(full, FracLimbs + 1, FracLimbs + n)
    ELSE Overflow

\* Fixed-point product, truncated: (a * b) / Base^FracLimbs.
MagMul(a, b) == Truncated(Carry(Shift(Shift(RawProduct(a, b, Len(a))))), Len(a))

\* The quotient limb floor(cur / d) of one step of the long division, for
\* cur < d * Base and d with its most significant limb, at index p, of at
\* least Base / 2: the estimate from the two leading limbs of cur is at most
\* 2 above the quotient limb, so the quotient limb is the estimate less the
\* number of the two highest candidates that are too large.
QuotDigit(cur, d, p) ==
    LET est  == (cur[p + 1] * Base + cur[p]) \div d[p]
        qhat == IF est > Base - 1 THEN Base - 1 ELSE est
    IN  qhat - Cardinality({c \in (qhat - 1)..qhat :
                               c >= 1 /\ MagCmp(MagMulSmall(d, c, Len(cur)), cur) > 0})

\* Long division of num by d: limbs i..1 are still to bring down, rem < d is
\* the running remainder, acc the quotient limbs found so far.  A step brings
\* down one limb (cur), finds the quotient limb q and the remainder r it
\* leaves, and goes on with the limbs below.
RECURSIVE LongDiv(_, _, _, _, _, _)
LongDivNext(num, d, p, i, q, r, acc) ==
    IF q >= 0 /\ MagCmp(r, d) < 0
    THEN LongDiv(num, d, p, i - 1, r, <<q>> \o acc)
    ELSE Overflow

LongDivLimb(num, d, p, i, cur, q, acc) ==
    LongDivNext(num, d, p, i, q, MagSub(cur, MagMulSmall(d, q, Len(cur))), acc)

LongDivStep(num, d, p, i, cur, acc) ==
    LongDivLimb(num, d, p, i, cur, QuotDigit(cur, d, p), acc)

LongDiv(num, d, p, i, rem, acc) ==
    IF i = 0 THEN acc
    ELSE LongDivStep(num, d, p, i, <<num[i]>> \o SubSeq(rem, 1, Len(rem) - 1), acc)

\* The quotient limbs q, the lowest cnt limbs of the quotient, as n limbs.
DivPlaced(q, cnt, n) ==
    IF cnt <= n THEN q \o Zeros(n - cnt)
    ELSE IF Fits(q, n) THEN SubSeq(q, 1, n)
    ELSE Overflow

\* The division starts with the p - 1 leading limbs of the numerator as the
\* remainder, so that every step yields one of the cnt limbs of the quotient.
DivLimbs(num, d, p, cnt, n) ==
    IF cnt <= 0 THEN SubSeq(Zeros(n), 1, n)
    ELSE DivPlaced(LongDiv(num, d, p, cnt,
                           SubSeq([k \in 1..(n + 1) |->
                                      IF k < p THEN num[cnt + k] ELSE 0], 1, n + 1),
                           <<>>),
                   cnt, n)

\* Numerator and denominator scaled by f, which brings the leading limb of
\* the denominator, at index p, to at least Base / 2.
DivScaled(a, b, p, f, n) ==
    DivLimbs(MagMulSmall(Zeros(FracLimbs) \o a, f, n + FracLimbs + 1),
             MagMulSmall(b, f, n) \o <<0>>,
             p,
             TopLimb(MagMulSmall(Zeros(FracLimbs) \o a, f, n + FracLimbs + 1)) - p + 1,
             n)

\* Fixed-point quotient, truncated: (a * Base^FracLimbs) / b, for b # 0.
MagDiv(a, b) ==
    DivScaled(a, b, TopLimb(b), Base \div (b[TopLimb(b)] + 1), Len(a))

(***************************************************************************)
(* Signed fixed-point numbers [s |-> 1 or -1, m |-> magnitude].            *)
(***************************************************************************)
\* The sign of 0 is 1.
Fx(s, m) == [s |-> IF s < 0 /\ ~MagIsZero(m) THEN -1 ELSE 1, m |-> m]

FromInt(k) ==
    LET a == IF k < 0 THEN -k ELSE k
    IN  Fx(IF k < 0 THEN -1 ELSE 1,
           Zeros(FracLimbs) \o MagMulSmall(<<a>>, 1, IntLimbs))

FZero == FromInt(0)
FOne == FromInt(1)

FNeg(a) == IF a = FZero THEN a ELSE [s |-> -a.s, m |-> a.m]
FAbs(a) == [s |-> 1, m |-> a.m]

FAdd(a, b) ==
    IF a.s = b.s THEN Fx(a.s, MagAdd(a.m, b.m))
    ELSE IF MagCmp(a.m, b.m) >= 0 THEN Fx(a.s, MagSub(a.m, b.m))
    ELSE Fx(b.s, MagSub(b.m, a.m))

FSub(a, b) == FAdd(a, FNeg(b))

FMul(a, b) == Fx(a.s * b.s, MagMul(a.m, b.m))

FDiv(a, b) == Fx(a.s * b.s, MagDiv(a.m, b.m))

FMulInt(a, k) ==
    Fx(IF k < 0 THEN -a.s ELSE a.s, MagMulSmall(a.m, IF k < 0 THEN -k ELSE k, NLimbs))

FDivInt(a, k) ==
    Fx(IF k < 0 THEN -a.s ELSE a.s, MagDivSmall(a.m, IF k < 0 THEN -k ELSE k))

\* -1, 0, 1 as a < b, a = b, a > b.
FCmp(a, b) ==
    IF a.s # b.s THEN a.s
    ELSE a.s * MagCmp(a.m, b.m)

FLt(a, b) == FCmp(a, b) < 0
FLe(a, b) == FCmp(a, b) <= 0

\* The decimal p / q of an integer p and a small natural q, truncated.
Ratio(p, q) == FDivInt(FromInt(p), q)

(***************************************************************************)
(* The library functions the scripts call, as truncated power series on    *)
(* the fixed-point numbers: np.exp, np.log, ** / np.power, np.arctan.      *)
(***************************************************************************)
\* One term of exp(y) = sum of y^k / k!: st.t is the term of index k - 1.
ExpStep(y, st, k) ==
    IF st.t = FZero THEN st
    ELSE [t |-> FDivInt(FMul(st.t, y), k), sum |-> FAdd(st.sum, st.t)]

\* The series is summed four terms at a time until the terms vanish at the
\* resolution of the numbers (a term of 0 adds nothing and stays 0).
RECURSIVE ExpLoop(_, _, _)
ExpLoop(y, st, k) ==
    IF st.t = FZero THEN st.sum
    ELSE ExpLoop(y,
                 ExpStep(y, ExpStep(y, ExpStep(y, ExpStep(y, st, k), k + 1), k + 2), k + 3),
                 k + 4)

Exp(y) == IF y = FZero THEN FOne ELSE ExpLoop(y, [t |-> FOne, sum |-> FZero], 1)

\* One term of the sum of sgn^k * z^(2k+1) / (2k+1): atanh(z) for sgn = 1,
\* atan(z) for sgn = -1.  st.p is sgn^k * z^(2k+1) and n = 2k + 1.
OddStep(z2, sgn, st, n) ==
    IF st.p = FZero THEN st
    ELSE [p |-> FMulInt(FMul(st.p, z2), sgn), sum |-> FAdd(st.sum, FDivInt(st.p, n))]

RECURSIVE OddSeries(_, _, _, _)
OddSeries(z2, sgn, st, n) ==
    IF FDivInt(st.p, n) = FZero THEN st.sum
    ELSE OddSeries(z2, sgn,
                   OddStep(z2, sgn, OddStep(z2, sgn, OddStep(z2, sgn,
                       OddStep(z2, sgn, st, n), n + 2), n + 4), n + 6),
                   n + 8)

\* Where z * z vanishes at the resolution of the numbers the sum is its
\* first term z.
OddSum(z, z2, sgn) ==
    IF z2 = FZero THEN z ELSE OddSeries(z2, sgn, [p |-> z, sum |-> FZero], 1)

Atanh(z) == OddSum(z, FMul(z, z), 1)
AtanSeries(z) == OddSum(z, FMul(z, z), -1)

\* Natural logarithm of a > 0: ln a = 2 atanh((a - 1) / (a + 1)).
Ln(a) == FMulInt(Atanh(FDiv(FSub(a, FOne), FAdd(a, FOne))), 2)

\* a ** x for a > 0.
Pow(a, x) == Exp(FMul(x, Ln(a)))

\* The real number pi to the resolution of the numbers (Machin's formula).
PiFx == FSub(FMulInt(AtanSeries(Ratio(1, 5)), 16), FMulInt(AtanSeries(Ratio(1, 239)), 4))
HalfPiFx == FDivInt(PiFx, 2)

\* atan(s) for s >= 0 in region 0 (s <= 2/5): the series at s; in region 1
\* (s <= 5/2): pi/4 + atan((s - 1) / (s + 1)); in region 2:
\* pi/2 - atan(1 / s).  The series is summed at 3/7 at most.
ArcTanIn(s, region) ==
    FAdd(FMulInt(FDivInt(PiFx, 4), region),
         FMulInt(AtanSeries(IF region = 0 THEN s
                            ELSE FDiv(IF region = 1 THEN FSub(s, FOne) ELSE FOne,
                                      IF region = 1 THEN FAdd(s, FOne) ELSE s)),
                 IF region = 2 THEN -1 ELSE 1))

ArcTanPos(s) ==
    ArcTanIn(s, IF FLe(s, Ratio(2, 5)) THEN 0 ELSE IF FLe(s, Ratio(5, 2)) THEN 1 ELSE 2)

ArcTan(s) == FMulInt(ArcTanPos(FAbs(s)), s.s)

\* One term of the sum of (-1)^k * y^n / n! over n = n0, n0 + 2, ...; st.t is
\* the term of index n: np.sin from n0 = 1, np.cos from n0 = 0.
TrigStep(y2, st, n) ==
    IF st.t = FZero THEN st
    ELSE [t   |-> FNeg(FDivInt(FDivInt(FMul(st.t, y2), n + 1), n + 2)),
          sum |-> FAdd(st.sum, st.t)]

RECURSIVE TrigLoop(_, _, _)
TrigLoop(y2, st, n) ==
    IF st.t = FZero THEN st.sum
    ELSE TrigLoop(y2,
                  TrigStep(y2, TrigStep(y2, TrigStep(y2, TrigStep(y2, st, n), n + 2),
                                        n + 4), n + 6),
                  n + 8)

\* Where y * y vanishes at the resolution of the numbers the sum is its
\* first term t0.
TrigSum(y2, t0, n0) ==
    IF y2 = FZero THEN t0 ELSE TrigLoop(y2, [t |-> t0, sum |-> FZero], n0)

SinFx(y) == TrigSum(FMul(y, y), y, 1)
CosFx(y) == TrigSum(FMul(y, y), FOne, 0)

(***************************************************************************)
(* 02_EulerNumber.py: get_val and get_slope read the two trackers.         *)
(***************************************************************************)
\* get_val(): a_tracker.get_value() ** x_tracker.get_value()
get_val(a, x) == Pow(a, x)

\* get_slope without the factor np.log(a).
get_slope_NoLog(a, x) == Pow(a, x)

\* get_slope(): np.log(a) * (a ** x)
get_slope(a, x) == FMul(Ln(a), Pow(a, x))

\* e cut to the three decimals that data_display shows for the base.
EulerE_ThreeDecimals == Ratio(2718, 1000)

\* np.exp(1), the value the base tracker is animated to.
EulerE == Exp(FOne)

(***************************************************************************)
(* 01_ExponentialSlopes.py: the plotted functions and get_slope_angle.     *)
(***************************************************************************)
\* The functions a call passes as fun are exponentials:
\* fun1 = lambda x: np.power(2, x), fun2 = lambda x: np.power(3, x), and
\* "decay", (1/2)^x, a falling exponential that no scene plots: an input with
\* negative slopes.
BaseOf(fun) ==
    CASE fun = "fun1" -> FromInt(2)
      [] fun = "fun2" -> FromInt(3)
      [] fun = "decay" -> Ratio(1, 2)

\* The floats that are no numbers of the fixed-point range: not-a-number
\* and the two infinities.  They have no limbs.
NaN == [s |-> 0, m |-> <<>>]
PosInf == [s |-> 1, m |-> <<>>]
NegInf == [s |-> -1, m |-> <<>>]
IsFinite(u) == u.m # <<>>

\* u - w of floats: not-a-number where an operand is one or where two
\* infinities of the same sign meet.
FloatSub(u, w) ==
    IF IsFinite(u) /\ IsFinite(w) THEN FSub(u, w)
    ELSE IF u = NaN \/ w = NaN THEN NaN
    ELSE IF IsFinite(w) THEN u
    ELSE IF IsFinite(u) \/ u.s # w.s THEN [w EXCEPT !.s = -w.s]
    ELSE NaN

\* u / w of floats for a finite w # 0.
FloatDiv(u, w) ==
    IF IsFinite(u) THEN FDiv(u, w)
    ELSE [u EXCEPT !.s = u.s * w.s]

\* np.arctan of a float: np.arctan(+-inf) is the float nearest +-pi/2.
FloatArcTan(u) ==
    IF IsFinite(u) THEN ArcTan(u)
    ELSE IF u = NaN THEN NaN
    ELSE FMulInt(HalfPiFx, u.s)

\* np.log: -inf at 0 and not-a-number below, with a warning and no error.
NpLog(x) == IF x = FZero THEN NegInf ELSE IF x.s < 0 THEN NaN ELSE Ln(x)

\* np.reciprocal: inf at 0.0, with a warning and no error.
NpReciprocal(x) == IF x = FZero THEN PosInf ELSE FDiv(FOne, x)

\* np.exp: inf above ln of the largest float, 709.78.
NpExp(x) == IF FLt(Ratio(70978, 100), x) THEN PosInf ELSE Exp(x)

\* fun(x): the exponentials, and np.log, np.reciprocal and np.exp as
\* functions that leave the finite floats.
Apply(fun, x) ==
    CASE fun = "log" -> NpLog(x)
      [] fun = "reciprocal" -> NpReciprocal(x)
      [] fun = "exp" -> NpExp(x)
      [] OTHER -> Pow(BaseOf(fun), x)

\* A step of 1e-3 in place of 1e-6.
StepH_Milli == Ratio(1, 1000)

\* The step 1e-6 of the finite difference.
StepH == FDivInt(Ratio(1, 1000), 1000)

\* df = lambda x: (fun(x + 1e-6) - fun(x)) / 1e-6
df(fun, x) == FloatDiv(FloatSub(Apply(fun, FAdd(x, StepH)), Apply(fun, x)), StepH)

\* get_slope_angle returning the slope itself, the arctangent left out.
get_slope_angle_NoArctan(fun, x) == df(fun, x)

\* get_slope_angle answering 0 where the slope is no finite number.
get_slope_angle_Recovering(fun, x) ==
    LET slope == df(fun, x)
        angle == IF IsFinite(slope) THEN ArcTan(slope) ELSE FZero
    IN  angle

get_slope_angle(fun, x) ==
    LET slope == df(fun, x)
        angle == FloatArcTan(slope)
    IN  angle

(***************************************************************************)
(* Angles.  The scripts build every angle from the float constant PI       *)
(* (np.pi): PI/2, PI, 3*PI/2, 2*PI = TAU, 6*PI, and the frames between     *)
(* them.  An angle of the model is a whole number of ticks of PI/12.       *)
(***************************************************************************)
PI == 12
TAU == 2 * PI

(***************************************************************************)
(* Colours are RGB triples.  A colour returned by interpolate_color with   *)
(* the fraction num/den has its channels scaled by den, so that the        *)
(* interpolation c1 * (1 - alpha) + c2 * alpha stays exact.                *)
(***************************************************************************)
BLUE == <<88, 196, 221>>
GREEN == <<131, 193, 103>>
RED == <<252, 98, 85>>
PURPLE == <<154, 114, 172>>

\* The fraction num / (PI/2) of the quarter turn.
OverQuarter(num) == [num |-> num, den |-> PI \div 2]

\* interpolate_color with the weights of the two colours exchanged.
interpolate_color_Swapped(color1, color2, alpha) ==
    [i \in 1..3 |-> color2[i] * (alpha.den - alpha.num) + color1[i] * alpha.num]

interpolate_color(color1, color2, alpha) ==
    [i \in 1..3 |-> color1[i] * (alpha.den - alpha.num) + color2[i] * alpha.num]

\* QuadrantColor with the third branch measuring its fraction from PI/2, the
\* start of the second branch.
QuadrantColor_StartOfSecond(q, r) ==
    CASE q = 1 -> interpolate_color(BLUE, GREEN, OverQuarter(r))
      [] q = 2 -> interpolate_color(GREEN, RED, OverQuarter(r - PI \div 2))
      [] q = 3 -> interpolate_color(RED, PURPLE, OverQuarter(r - PI \div 2))
      [] q = 4 -> interpolate_color(PURPLE, BLUE, OverQuarter(r - (3 * PI) \div 2))

\* The colour of one branch of get_current_color for the wrapped angle r.
QuadrantColor(q, r) ==
    CASE q = 1 -> interpolate_color(BLUE, GREEN, OverQuarter(r))
      [] q = 2 -> interpolate_color(GREEN, RED, OverQuarter(r - PI \div 2))
      [] q = 3 -> interpolate_color(RED, PURPLE, OverQuarter(r - PI))
      [] q = 4 -> interpolate_color(PURPLE, BLUE, OverQuarter(r - (3 * PI) \div 2))

\* The branch get_current_color takes for the wrapped angle r.
Quadrant(r) ==
    IF r <= PI \div 2 THEN 1
    ELSE IF r <= PI THEN 2
    ELSE IF r <= (3 * PI) \div 2 THEN 3
    ELSE 4

\* get_current_color without the wrap of the angle.
get_current_color_NoWrap(angle) ==
    QuadrantColor(Quadrant(angle), angle)

\* get_current_color with an elif on the fourth branch that the angles of
\* the last twelfth of the turn miss: the function ends without a return and
\* the call yields None.
get_current_color_ElifGap(angle) ==
    LET normalized_angle == angle % (2 * PI)
    IN  IF normalized_angle < 2 * PI - 1
        THEN QuadrantColor(Quadrant(normalized_angle), normalized_angle)
        ELSE <<>>

get_current_color(angle) ==
    LET normalized_angle == angle % (2 * PI)
    IN  QuadrantColor(Quadrant(normalized_angle), normalized_angle)

(***************************************************************************)
(* exp(1j * theta).  On the ticks of PI/12 the real cosine and sine lie in *)
(* Q(sqrt 2, sqrt 3): <<a, b, c, d>> is (a + b*sqrt2 + c*sqrt3 + d*sqrt6)  *)
(* over 4.                                                                 *)
(* PI is the binary64 number nearest pi and lies below it by               *)
(* delta = pi - PI = 1.2246e-16, so the tick n is the real angle           *)
(* n*pi/12 - n*eps with eps = delta/12.  A computed value is kept to first *)
(* order in eps as [v |-> its value at eps = 0, e |-> its coefficient of   *)
(* eps]; the terms in eps^2 (1e-34) are below every binary64 near them.    *)
(***************************************************************************)
AlgZero == <<0, 0, 0, 0>>
AlgOne == <<4, 0, 0, 0>>
AlgNeg(u) == [i \in 1..4 |-> -u[i]]
AlgAdd(u, w) == [i \in 1..4 |-> u[i] + w[i]]
AlgScale(k, u) == [i \in 1..4 |-> k * u[i]]

\* The product of two numbers over 4, as a number over 16.
AlgMul16(u, w) ==
    << u[1] * w[1] + 2 * u[2] * w[2] + 3 * u[3] * w[3] + 6 * u[4] * w[4],
       u[1] * w[2] + u[2] * w[1] + 3 * (u[3] * w[4] + u[4] * w[3]),
       u[1] * w[3] + u[3] * w[1] + 2 * (u[2] * w[4] + u[4] * w[2]),
       u[1] * w[4] + u[4] * w[1] + u[2] * w[3] + u[3] * w[2] >>

\* cos(n * pi/12) for n = 0..6, at index n + 1.
CosFirstQuadrant ==
    << <<4, 0, 0, 0>>, <<0, 1, 0, 1>>, <<0, 0, 2, 0>>, <<0, 2, 0, 0>>,
       <<2, 0, 0, 0>>, <<0, -1, 0, 1>>, <<0, 0, 0, 0>> >>

RealCos(n) ==
    LET m == n % TAU
        h == IF m > PI THEN TAU - m ELSE m
    IN  IF h <= PI \div 2 THEN CosFirstQuadrant[h + 1]
        ELSE AlgNeg(CosFirstQuadrant[PI - h + 1])

RealSin(n) == RealCos(n - PI \div 2)

\* np.cos and np.sin of the float angle of n ticks.
Cos(n) == [v |-> RealCos(n), e |-> AlgScale(n, RealSin(n))]
Sin(n) == [v |-> RealSin(n), e |-> AlgScale(-n, RealCos(n))]

\* exp(-1j * theta): the rotation run clockwise.
ExpJ_Conjugate(theta) == [re |-> Cos(theta), im |-> Sin(-theta)]

\* The cosine taken for both coordinates.
ExpJ_CosTwice(theta) == [re |-> Cos(theta), im |-> Cos(theta)]

\* np.exp(1j * theta): the point (re, im) that n2p places on the plane.
ExpJ(theta) == [re |-> Cos(theta), im |-> Sin(theta)]

VARIABLES
    call,   \* the helper under evaluation and its arguments
    ret,    \* <<>> while the call runs, <<value>> once it has returned
    scene   \* the scene under construction: its trackers and its play steps

vars == <<call, ret, scene>>

\* No scene under construction: a helper evaluated on its own.
NoScene == [name |-> "none"]

\* Angles handed to the rotation helpers: MaxTurns turns either way.
MaxTurns == 3
Angles == (-MaxTurns * TAU)..(MaxTurns * TAU)

InitColor ==
    /\ call \in {[fn |-> "get_current_color", angle |-> n] : n \in Angles}
    /\ ret = <<>>
    /\ scene = NoScene

ReturnColor ==
    /\ call.fn = "get_current_color"
    /\ ret = <<>>
    /\ ret' = <<get_current_color(call.angle)>>
    /\ UNCHANGED <<call, scene>>

NextColor == ReturnColor

SpecColor == InitColor /\ [][NextColor]_vars

InitPhasor ==
    /\ call \in {[fn |-> "exp1j", theta |-> n] : n \in Angles}
    /\ ret = <<>>
    /\ scene = NoScene

ReturnPhasor ==
    /\ call.fn = "exp1j"
    /\ ret = <<>>
    /\ ret' = <<ExpJ(call.theta)>>
    /\ UNCHANGED <<call, scene>>

NextPhasor == ReturnPhasor

SpecPhasor == InitPhasor /\ [][NextPhasor]_vars

\* The x axis of EulerNumber is x_range = [-3, 3]; XSteps inputs per unit.
XMax == 3
XSteps == 4
XIndex == (-XMax * XSteps)..(XMax * XSteps)
XGrid == {Ratio(i, XSteps) : i \in XIndex}

\* Bases handed to get_val / get_slope: 2 and 3 of the slopes scene, the start
\* 2.0 and the end np.exp(1) of the base tracker, and 1/2 and 5/2.
Bases == {FromInt(2), FromInt(3), EulerE, Ratio(1, 2), Ratio(5, 2)}

\* data_display evaluates get_val() and get_slope() on the same tracker values.
InitExp ==
    /\ call \in {[fn |-> "data_display", a |-> a, x |-> x] : a \in Bases, x \in XGrid}
    /\ ret = <<>>
    /\ scene = NoScene

ReturnExp ==
    /\ call.fn = "data_display"
    /\ ret = <<>>
    /\ ret' = <<[val |-> get_val(call.a, call.x), slope |-> get_slope(call.a, call.x)]>>
    /\ UNCHANGED <<call, scene>>

NextExp == ReturnExp

SpecExp == InitExp /\ [][NextExp]_vars

\* The domains x_range the two curves are plotted and walked over, and the
\* number of steps the inputs divide each domain into.
XRange1 == <<Ratio(-5, 2), Ratio(7, 2)>>
XRange2 == <<Ratio(-5, 2), Ratio(27, 10)>>
GridSteps == 30

GridPoint(range, i) ==
    FAdd(range[1], FDivInt(FMulInt(FSub(range[2], range[1]), i), GridSteps))

SlopeCalls ==
    {[fn |-> "get_slope_angle", fun |-> "fun1", x |-> GridPoint(XRange1, i)]
        : i \in 0..GridSteps}
    \cup {[fn |-> "get_slope_angle", fun |-> "fun2", x |-> GridPoint(XRange2, i)]
        : i \in 0..GridSteps}
    \cup {[fn |-> "get_slope_angle", fun |-> "decay", x |-> GridPoint(XRange1, i)]
        : i \in 0..GridSteps}

InitSlope ==
    /\ call \in SlopeCalls
    /\ ret = <<>>
    /\ scene = NoScene

ReturnSlope ==
    /\ call.fn = "get_slope_angle"
    /\ ret = <<>>
    /\ ret' = <<get_slope_angle(call.fun, call.x)>>
    /\ UNCHANGED <<call, scene>>

NextSlope == ReturnSlope

SpecSlope == InitSlope /\ [][NextSlope]_vars

(***************************************************************************)
(* The scenes.  construct() builds the trackers and the redraw closures    *)
(* and then plays its steps; a play step that animates a tracker changes   *)
(* it frame by frame, and between two frames the closures are redrawn: they *)
(* read the trackers and call the helpers.                                 *)
(* ExponentialSlopes has no ValueTracker: the x of its two moving dots is  *)
(* what its closures read, and MoveAlongPath is what moves them.           *)
(***************************************************************************)
SceneNames ==
    {"ExponentialSlopes", "EulerNumber", "ComplexJRotation", "EulerLiveVisualization"}

\* The trackers as construct() creates them.
Trackers(name) ==
    CASE name = "ExponentialSlopes" ->
             [moving_dot1 |-> XRange1[1], moving_dot2 |-> XRange2[1]]
      [] name = "EulerNumber" -> [a_tracker |-> FromInt(2), x_tracker |-> FZero]
      [] name = "ComplexJRotation" -> [angle_tracker |-> 0]
      [] name = "EulerLiveVisualization" -> [t |-> 0]

\* The play steps of construct() that move a tracker, in their order.
Steps(name) ==
    CASE name = "ExponentialSlopes" ->
             << [tracker |-> "moving_dot1", value |-> XRange1[2]],
                [tracker |-> "moving_dot2", value |-> XRange2[2]] >>
      [] name = "EulerNumber" ->
             << [tracker |-> "x_tracker", value |-> Ratio(12, 10)],
                [tracker |-> "a_tracker", value |-> EulerE],
                [tracker |-> "x_tracker", value |-> Ratio(-15, 10)],
                [tracker |-> "x_tracker", value |-> Ratio(15, 10)] >>
      [] name = "ComplexJRotation" ->
             << [tracker |-> "angle_tracker", value |-> PI \div 2],
                [tracker |-> "angle_tracker", value |-> PI],
                [tracker |-> "angle_tracker", value |-> (3 * PI) \div 2],
                [tracker |-> "angle_tracker", value |-> 2 * PI],
                [tracker |-> "angle_tracker", value |-> 6 * PI] >>
      [] name = "EulerLiveVisualization" ->
             << [tracker |-> "t", value |-> PI \div 2],
                [tracker |-> "t", value |-> PI],
                [tracker |-> "t", value |-> (3 * PI) \div 2],
                [tracker |-> "t", value |-> TAU] >>

\* The scene once construct() has built it: step is the play step that runs
\* or comes next, frame the number of its frames already played.
Constructed(name) ==
    [name |-> name, trackers |-> Trackers(name), step |-> 1, frame |-> 0]

\* Frames a play step is rendered in.
Frames == 2

\* The trackers of the rotation scenes hold angles, in ticks.
HoldsAngle(name) == name \in {"ComplexJRotation", "EulerLiveVisualization"}

\* The value of a tracker when play step k starts: where the last step that
\* moved it has left it.
RECURSIVE StartValue(_, _, _)
StartValue(name, tracker, k) ==
    IF k = 1 THEN Trackers(name)[tracker]
    ELSE IF Steps(name)[k - 1].tracker = tracker THEN Steps(name)[k - 1].value
    ELSE StartValue(name, tracker, k - 1)

\* The animated value after f of the Frames frames, from start to target.
Interpolate(name, start, target, f) ==
    IF f = Frames THEN target
    ELSE IF HoldsAngle(name) THEN start + ((target - start) * f) \div Frames
    ELSE FAdd(start, FDivInt(FMulInt(FSub(target, start), f), Frames))

\* The scene after one more frame of its running play step st.
Played(s, st) ==
    [s EXCEPT !.trackers[st.tracker] =
                  Interpolate(s.name, StartValue(s.name, st.tracker, s.step),
                              st.value, s.frame + 1),
              !.step = IF s.frame + 1 = Frames THEN s.step + 1 ELSE s.step,
              !.frame = (s.frame + 1) % Frames]

AfterFrame(s) == Played(s, Steps(s.name)[s.step])

\* The helper calls the redraw closures of a scene make, on what get_value()
\* of its trackers returns.
Closures(s) ==
    CASE s.name = "ExponentialSlopes" ->
             {[fn |-> "get_slope_angle", fun |-> "fun1", x |-> s.trackers.moving_dot1],
              [fn |-> "get_slope_angle", fun |-> "fun2", x |-> s.trackers.moving_dot2]}
      [] s.name = "EulerNumber" ->
             {[fn |-> "get_val", a |-> s.trackers.a_tracker, x |-> s.trackers.x_tracker],
              [fn |-> "get_slope", a |-> s.trackers.a_tracker, x |-> s.trackers.x_tracker]}
      [] s.name = "ComplexJRotation" ->
             {[fn |-> "exp1j", theta |-> s.trackers.angle_tracker],
              [fn |-> "get_current_color", angle |-> s.trackers.angle_tracker]}
      [] s.name = "EulerLiveVisualization" ->
             {[fn |-> "exp1j", theta |-> s.trackers.t]}

\* The value a helper call returns.
Eval(c) ==
    CASE c.fn = "get_slope_angle" -> get_slope_angle(c.fun, c.x)
      [] c.fn = "get_val" -> get_val(c.a, c.x)
      [] c.fn = "get_slope" -> get_slope(c.a, c.x)
      [] c.fn = "exp1j" -> ExpJ(c.theta)
      [] c.fn = "get_current_color" -> get_current_color(c.angle)

\* No helper under evaluation.
NoCall == [fn |-> "none"]
HelperRunning == call # NoCall /\ ret = <<>>

InitScene ==
    /\ scene \in {Constructed(name) : name \in SceneNames}
    /\ call = NoCall
    /\ ret = <<>>

\* A redraw closure calls a helper.
Redraw ==
    /\ ~HelperRunning
    /\ \E c \in Closures(scene) : call' = c
    /\ ret' = <<>>
    /\ UNCHANGED scene

\* A helper return that also plays a frame of the running step.
ReturnScene_PlaysFrame ==
    /\ HelperRunning
    /\ ret' = <<Eval(call)>>
    /\ scene' = IF scene.step <= Len(Steps(scene.name)) THEN AfterFrame(scene) ELSE scene
    /\ UNCHANGED call

\* The helper returns its value.
ReturnScene ==
    /\ HelperRunning
    /\ ret' = <<Eval(call)>>
    /\ UNCHANGED <<call, scene>>

\* One frame of self.play(tracker.animate.set_value(value)), or of
\* MoveAlongPath for a moving dot; the frame drops what was drawn before.
SetValue ==
    /\ ~HelperRunning
    /\ scene.step <= Len(Steps(scene.name))
    /\ scene' = AfterFrame(scene)
    /\ call' = NoCall
    /\ ret' = <<>>

NextScene == Redraw \/ ReturnScene \/ SetValue

SpecScene == InitScene /\ [][NextScene]_vars

(***************************************************************************)
(* Claims about get_current_color.                                         *)
(***************************************************************************)
ColorReturned == call.fn = "get_current_color" /\ ret # <<>>

\* The anchors in the order of the segments; segment k runs from anchor k to
\* anchor k + 1, the last one back to the first.
Anchors == <<BLUE, GREEN, RED, PURPLE>>
Anchor(k) == Anchors[(k % 4) + 1]

\* A colour at the scale of the returned colours.
AtScale(c) == [i \in 1..3 |-> c[i] * (PI \div 2)]

\* The representative of angle in [0, 2*PI).
Reduced(angle) ==
    CHOOSE r \in 0..(TAU - 1) :
        \E k \in (-MaxTurns - 1)..(MaxTurns + 1) : angle = r + k * TAU

\* Segment 0 is [0, PI/2], segment k > 0 is (k*PI/2, (k+1)*PI/2].
SegmentOf(r) == IF r = 0 THEN 0 ELSE (r - 1) \div (PI \div 2)

\* C1: for every angle, get_current_color returns the linear interpolation
\* between the two anchors of the segment that holds the reduced angle r
\* (BLUE->GREEN up to PI/2, GREEN->RED up to PI, RED->PURPLE up to 3*PI/2,
\* PURPLE->BLUE for the rest), at the fraction (r - segment start) / (PI/2),
\* and that fraction lies in [0, 1].
C1_SegmentInterpolation ==
    ColorReturned =>
        LET r   == Reduced(call.angle)
            k   == SegmentOf(r)
            num == r - k * (PI \div 2)
        IN  /\ k \in 0..3
            /\ 0 <= num /\ num <= PI \div 2
            /\ ret[1] = [i \in 1..3 |->
                           Anchor(k)[i] * (PI \div 2 - num) + Anchor(k + 1)[i] * num]

\* A negative angle whose reduced angle lies strictly inside the last segment.
C1_Witness ==
    /\ ColorReturned
    /\ call.angle < 0
    /\ Reduced(call.angle) > (3 * PI) \div 2
    /\ ret[1] # AtScale(PURPLE) /\ ret[1] # AtScale(BLUE)

\* C2: at every multiple k of PI/2 the returned colour is the anchor k mod 4,
\* and the branch that ends at that angle (at fraction 1) and the branch that
\* starts at it (at fraction 0) give this same colour, the last branch at 2*PI
\* and the first at 0 included.
C2_BoundaryContinuity ==
    (ColorReturned /\ call.angle % (PI \div 2) = 0) =>
        LET k      == Reduced(call.angle) \div (PI \div 2)
            ending == IF k = 0 THEN 4 ELSE k
        IN  /\ ret[1] = AtScale(Anchor(k))
            /\ QuadrantColor(ending, ending * (PI \div 2)) = ret[1]
            /\ QuadrantColor(k + 1, k * (PI \div 2)) = ret[1]

\* The wraparound boundary, reached from a negative angle.
C2_Witness ==
    /\ ColorReturned
    /\ call.angle = -TAU
    /\ ret[1] = AtScale(BLUE)

\* C3: get_current_color has period 2*PI: the colour returned for an angle is
\* the colour of that angle shifted by any whole number of turns, negative
\* angles and 6*PI included; the colour of 2*PI is the colour of 0.
C3_Periodic ==
    ColorReturned =>
        /\ \A k \in (-MaxTurns)..MaxTurns :
               get_current_color(call.angle + k * TAU) = ret[1]
        /\ (call.angle = TAU => ret[1] = get_current_color(0))

\* An angle beyond one turn and off every boundary: its colour is no anchor
\* and is the colour of the angle one turn back.
C3_Witness ==
    /\ ColorReturned
    /\ call.angle > TAU
    /\ call.angle % (PI \div 2) # 0
    /\ ret[1] = get_current_color(call.angle - TAU)

(***************************************************************************)
(* Claims about the phasor endpoint exp(1j * theta).                       *)
(***************************************************************************)
PhasorReturned == call.fn = "exp1j" /\ ret # <<>>

\* The cycle 1, j, -1, -j as points (re, im).
Cycle == << <<1, 0>>, <<0, 1>>, <<-1, 0>>, <<0, -1>> >>
CyclePoint(k) == Cycle[(k % 4) + 1]

\* The integer c as a number over 4.
AlgInt(c) == AlgScale(c, AlgOne)

\* A computed value that is the integer c with no deviation at all.
Exactly(c) == [v |-> AlgInt(c), e |-> AlgZero]

\* The value at eps = 0 of a computed point.
RealPoint(z) == <<z.re.v, z.im.v>>

\* eps = (pi - PI) / 12 < 1.1e-17 and 1e-9 / 1.1e-17 > 9 * 10^7, so a
\* deviation of e * eps, e an integer over 4, is within 1e-9 when the integer
\* is at most 9 * 10^7 in absolute value.
WithinTolerance(e) ==
    /\ e[2] = 0 /\ e[3] = 0 /\ e[4] = 0
    /\ e[1] <= 4 * 90000000
    /\ -e[1] <= 4 * 90000000

SquaredMagnitude(z) ==
    [v |-> AlgAdd(AlgMul16(z.re.v, z.re.v), AlgMul16(z.im.v, z.im.v)),
     e |-> AlgScale(2, AlgAdd(AlgMul16(z.re.v, z.re.e), AlgMul16(z.im.v, z.im.e)))]

\* C5: for every angle the endpoint has re^2 + im^2 = 1 within 1e-9: the
\* squared magnitude is 1 at eps = 0 and has no term of first order in eps,
\* so it differs from 1 by terms of order eps^2 only.
C5_UnitMagnitude ==
    PhasorReturned =>
        SquaredMagnitude(ret[1]) = [v |-> AlgScale(4, AlgOne), e |-> AlgZero]

\* An endpoint off the axes, both coordinates irrational, for a negative angle.
C5_Witness ==
    /\ PhasorReturned
    /\ call.theta = -(PI \div 12)
    /\ ret[1].re.v = <<0, 1, 0, 1>>
    /\ ret[1].im.v = <<0, 1, 0, -1>>

(***************************************************************************)
(* Claims about get_val and get_slope.                                     *)
(***************************************************************************)
ExpReturned == call.fn = "data_display" /\ ret # <<>>

\* 1e-9.
Tol9 == FDivInt(FDivInt(Ratio(1, 1000), 1000), 1000)

\* |u - w| <= tol
Near(u, w, tol) == FLe(FAbs(FSub(u, w)), tol)

\* a^n for a natural n, by n multiplications.
RECURSIVE IntPowFrom(_, _, _)
IntPowFrom(a, n, acc) ==
    IF n = 0 \/ acc = FZero THEN acc ELSE IntPowFrom(a, n - 1, FMul(acc, a))

IntPow(a, n) == IntPowFrom(a, n, FOne)

\* The constants the slopes scene prints as k_1 and k_2.
K1 == Ratio(693, 1000)
K2 == Ratio(1099, 1000)

\* v printed with three decimals is k.
ToThreeDecimals(v, k) == Near(v, k, Ratio(5, 10000))

\* C6: for every base a > 0 and every x, get_val returns a^x (for x = i/XSteps
\* its XSteps-th power is a^i, within 1e-9 relative) and get_slope returns
\* ln(a) * a^x, ln being the inverse of exp; at x = 0 the value is 1 and the
\* slope is ln(a), which for a = 2 is 0.6931 and for a = 3 is 1.0986 to four
\* decimals, the constants k1 = 0.693 and k2 = 1.099 to three.
C6_ValueAndSlope ==
    ExpReturned =>
        LET a     == call.a
            val   == ret[1].val
            slope == ret[1].slope
            i     == CHOOSE k \in XIndex : call.x = Ratio(k, XSteps)
            lhs   == IntPow(val, XSteps)
            rhs   == IntPow(a, IF i < 0 THEN -i ELSE i)
            lna   == Ln(a)
        IN  /\ IF i >= 0 THEN Near(lhs, rhs, FMul(Tol9, rhs))
                         ELSE Near(FMul(lhs, rhs), FOne, Tol9)
            /\ Near(Exp(lna), a, Tol9)
            /\ slope = FMul(lna, val)
            /\ i = 0 => val = FOne /\ slope = lna
            /\ (i = 0 /\ a = FromInt(2)) =>
                   /\ Near(slope, Ratio(6931, 10000), Ratio(5, 100000))
                   /\ ToThreeDecimals(slope, K1)
            /\ (i = 0 /\ a = FromInt(3)) =>
                   /\ Near(slope, Ratio(10986, 10000), Ratio(5, 100000))
                   /\ ToThreeDecimals(slope, K2)

\* Base 3 at x = 0: value 1, slope 1.099 to three decimals and not 1.
C6_Witness ==
    /\ ExpReturned
    /\ call.a = FromInt(3)
    /\ call.x = FZero
    /\ ret[1].val = FOne
    /\ ToThreeDecimals(ret[1].slope, K2)
    /\ ret[1].slope # FOne

\* C7: when the base is np.exp(1), the value a^x and the slope ln(a) * a^x
\* are equal within 1e-9 relative tolerance, for every x.
C7_EulerValueEqualsSlope ==
    (ExpReturned /\ call.a = EulerE) =>
        Near(ret[1].val, ret[1].slope, FMul(Tol9, FAbs(ret[1].val)))

\* Base e at the left end of the axis: a small value, the slope next to it.
C7_Witness ==
    /\ ExpReturned
    /\ call.a = EulerE
    /\ call.x = FromInt(-XMax)
    /\ FLt(ret[1].val, Ratio(1, 10))
    /\ FLt(FZero, ret[1].slope)
    /\ Near(ret[1].val, ret[1].slope, Tol9)

(***************************************************************************)
(* Claims about get_slope_angle.                                           *)
(***************************************************************************)
SlopeReturned == call.fn = "get_slope_angle" /\ ret # <<>>

\* C8: get_slope_angle returns atan((f(x + h) - f(x)) / h) for the step
\* h = 1e-6: the returned angle lies strictly between -pi/2 and pi/2 and its
\* tangent is the difference quotient (sin = quotient * cos, within 1e-9).
C8_ArctanOfDifferenceQuotient ==
    SlopeReturned =>
        LET angle == ret[1]
            fx    == Apply(call.fun, call.x)
            fxh   == Apply(call.fun, FAdd(call.x, StepH))
            slope == FDiv(FSub(fxh, fx), StepH)
        IN  /\ Near(FMulInt(FMulInt(StepH, 1000), 1000), FOne, Tol9)
            /\ slope.s \in {-1, 1}
            /\ FLt(FNeg(HalfPiFx), angle)
            /\ FLt(angle, HalfPiFx)
            /\ Near(SinFx(angle), FMul(slope, CosFx(angle)), Tol9)

\* A falling function: the angle is negative and above -pi/2.
C8_Witness ==
    /\ SlopeReturned
    /\ call.fun = "decay"
    /\ call.x = XRange1[1]
    /\ FLt(ret[1], FNeg(FOne))
    /\ FLt(FNeg(HalfPiFx), ret[1])

\* C9: for every x of the plotted domain and f(x) = base^x, the angle that
\* get_slope_angle returns differs from atan(ln(base) * base^x) by less than
\* 1e-4.
C9_CloseToAnalyticAngle ==
    SlopeReturned =>
        FLt(FAbs(FSub(ret[1], ArcTan(get_slope(BaseOf(call.fun), call.x)))),
            Ratio(1, 10000))

\* 3^x at the right end of its domain, where the curve is steepest: the
\* returned angle is not the analytic one, and is within 1e-4 of it.
C9_Witness ==
    /\ SlopeReturned
    /\ call.fun = "fun2"
    /\ call.x = XRange2[2]
    /\ ret[1] # ArcTan(get_slope(FromInt(3), call.x))
    /\ Near(ret[1], ArcTan(get_slope(FromInt(3), call.x)), Ratio(1, 10000))

(***************************************************************************)
(* The frame condition of the helpers.                                     *)
(***************************************************************************)
\* The step that changes the scene is a frame of the running play step: no
\* helper is under evaluation, the tracker that the step names takes a value
\* on the way to the step's value, and no other tracker changes.
IsSetValueStep ==
    /\ ~HelperRunning
    /\ scene.step <= Len(Steps(scene.name))
    /\ LET st == Steps(scene.name)[scene.step]
       IN  /\ scene'.name = scene.name
           /\ \A t \in DOMAIN scene.trackers :
                  t # st.tracker => scene'.trackers[t] = scene.trackers[t]
           /\ \E f \in 1..Frames :
                  scene'.trackers[st.tracker]
                      = Interpolate(scene.name,
                                    StartValue(scene.name, st.tracker, scene.step),
                                    st.value, f)

\* C10: a step in which a helper is called or returns leaves every tracker
\* and the rest of the scene state unchanged; the scene state changes only
\* in a set_value step of the construct sequence, taken between helper calls.
C10_HelpersLeaveSceneUnchanged ==
    [][ /\ (HelperRunning \/ HelperRunning') => scene' = scene
        /\ scene' # scene => IsSetValueStep ]_vars

\* get_slope has returned in EulerNumber after set_value has moved both
\* trackers: the base is np.exp(1), x is 1.2, and the trackers still are.
C10_Witness ==
    /\ scene.name = "EulerNumber"
    /\ scene.step = 3
    /\ call.fn = "get_slope"
    /\ ret # <<>>
    /\ scene.trackers = [a_tracker |-> EulerE, x_tracker |-> Ratio(12, 10)]

(***************************************************************************)
(* Concurrent callers.  Each caller runs one helper call, statement by     *)
(* statement; the steps of the callers interleave in any order.  A call    *)
(* keeps its local variables in its own frame; self is the scene instance  *)
(* that get_slope_angle and get_current_color receive, and the attributes  *)
(* that the helpers have set on it.                                        *)
(***************************************************************************)
NCallers == 2
Callers == 1..NCallers

\* The calls the callers make: each helper, get_current_color on two angles.
ConcurrentCalls ==
    {[fn |-> "get_current_color", angle |-> PI \div 3],
     [fn |-> "get_current_color", angle |-> 3 * PI + PI \div 4],
     [fn |-> "exp1j", theta |-> PI \div 3],
     [fn |-> "get_val", a |-> FromInt(2), x |-> Ratio(12, 10)],
     [fn |-> "get_slope", a |-> FromInt(2), x |-> Ratio(12, 10)],
     [fn |-> "get_slope_angle", fun |-> "fun2", x |-> Ratio(1, 2)]}

\* The frame of a call that has not run a statement yet.
NoLocals == [v \in {} |-> 0]
Entered(c) == [call |-> c, pc |-> 1, locals |-> NoLocals]

\* A statement that assigns value to the local variable var.
Assign(f, self, var, value) ==
    [frame |-> [f EXCEPT !.pc = f.pc + 1, !.locals = (var :> value) @@ f.locals],
     self |-> self, ret |-> <<>>]

\* return value
Return(f, self, value) ==
    [frame |-> [f EXCEPT !.pc = 0], self |-> self, ret |-> <<value>>]

\* get_slope_angle: slope = df(x); angle = np.arctan(slope); return angle
get_slope_angle_Step(f, self) ==
    CASE f.pc = 1 -> Assign(f, self, "slope", df(f.call.fun, f.call.x))
      [] f.pc = 2 -> Assign(f, self, "angle", FloatArcTan(f.locals.slope))
      [] f.pc = 3 -> Return(f, self, f.locals.angle)

\* get_current_color keeping normalized_angle as an attribute of self.
get_current_color_Step_OnSelf(f, self) ==
    CASE f.pc = 1 ->
             [frame |-> [f EXCEPT !.pc = 2],
              self |-> ("normalized_angle" :> f.call.angle % (2 * PI)) @@ self,
              ret |-> <<>>]
      [] f.pc = 2 ->
             Return(f, self, QuadrantColor(Quadrant(self.normalized_angle),
                                           self.normalized_angle))

\* get_current_color: normalized_angle = angle % (2 * PI); the branches.
get_current_color_Step(f, self) ==
    CASE f.pc = 1 -> Assign(f, self, "normalized_angle", f.call.angle % (2 * PI))
      [] f.pc = 2 ->
             Return(f, self, QuadrantColor(Quadrant(f.locals.normalized_angle),
                                           f.locals.normalized_angle))

\* The next statement of the call of frame f.
HelperStep(f, self) ==
    CASE f.call.fn = "get_slope_angle" -> get_slope_angle_Step(f, self)
      [] f.call.fn = "get_current_color" -> get_current_color_Step(f, self)
      [] f.call.fn = "get_val" -> Return(f, self, get_val(f.call.a, f.call.x))
      [] f.call.fn = "get_slope" -> Return(f, self, get_slope(f.call.a, f.call.x))
      [] f.call.fn = "exp1j" -> Return(f, self, ExpJ(f.call.theta))

InitConcurrent ==
    /\ call \in [Callers -> {Entered(c) : c \in ConcurrentCalls}]
    /\ ret = [c \in Callers |-> <<>>]
    /\ scene = NoScene

\* The result of one statement of a caller, taken by the three variables.
Taken(caller, r) ==
    /\ call' = [call EXCEPT ![caller] = r.frame]
    /\ ret' = [ret EXCEPT ![caller] = r.ret]
    /\ scene' = r.self

\* One caller runs the next statement of its call.
Statement ==
    \E caller \in Callers :
        /\ call[caller].pc > 0
        /\ Taken(caller, HelperStep(call[caller], scene))

NextConcurrent == Statement

SpecConcurrent == InitConcurrent /\ [][NextConcurrent]_vars

(***************************************************************************)
(* Claims about concurrent callers.                                        *)
(***************************************************************************)
\* C11: under every interleaving of the statements of concurrent helper
\* calls, with no locking, a call that has returned has returned the value
\* the same call returns when run alone on the same inputs, whatever the
\* other callers did before or meanwhile, and the calls have left no state
\* behind on the scene instance.
C11_InterleavingIndependent ==
    /\ scene = NoScene
    /\ \A caller \in Callers :
           ret[caller] # <<>> => ret[caller][1] = Eval(call[caller].call)

\* Two calls of get_current_color on angles of different quadrants have both
\* returned, next to each other.
C11_Witness ==
    /\ \A caller \in Callers : ret[caller] # <<>>
    /\ call[1].call = [fn |-> "get_current_color", angle |-> PI \div 3]
    /\ call[2].call = [fn |-> "get_current_color", angle |-> 3 * PI + PI \div 4]
    /\ ret[1][1] # ret[2][1]

(***************************************************************************)
(* get_slope_angle on functions that leave the finite floats.              *)
(***************************************************************************)
NonFiniteCalls ==
    {[fn |-> "get_slope_angle", fun |-> "log", x |-> x]
        : x \in {FromInt(-1), Ratio(-1, 2), FNeg(StepH), FOne, FromInt(2)}}
    \cup {[fn |-> "get_slope_angle", fun |-> "reciprocal", x |-> x]
        : x \in {FZero, FNeg(StepH), FOne, FromInt(-1)}}
    \cup {[fn |-> "get_slope_angle", fun |-> "exp", x |-> x]
        : x \in {FromInt(710), FromInt(711), FZero, FOne}}

InitSlopeAny ==
    /\ call \in SlopeCalls \cup NonFiniteCalls
    /\ ret = <<>>
    /\ scene = NoScene

SpecSlopeAny == InitSlopeAny /\ [][NextSlope]_vars

(***************************************************************************)
(* Claims about get_slope_angle where fun is not finite.                   *)
(***************************************************************************)
\* fun(x) or fun(x + h) of the returned call is not-a-number or infinite.
NonFiniteReturned ==
    /\ SlopeReturned
    /\ \/ ~IsFinite(Apply(call.fun, call.x))
       \/ ~IsFinite(Apply(call.fun, FAdd(call.x, StepH)))

\* C12 as stated: where fun(x) or fun(x + h) is not-a-number or infinite,
\* the value get_slope_angle returns is that not-a-number or infinite
\* result, handed on unchanged.
C12_NonFinitePropagated ==
    NonFiniteReturned => ~IsFinite(ret[1])

\* C12, amended: where fun(x) or fun(x + h) is not-a-number or infinite,
\* get_slope_angle returns a float without recovering: not-a-number where
\* one of the two values is not-a-number or both are the same infinity, and
\* otherwise, the difference being infinite, the float nearest pi/2 with the
\* sign of that difference, which is finite.
C12_NanKeptInfinityToHalfPi ==
    NonFiniteReturned =>
        LET fx  == Apply(call.fun, call.x)
            fxh == Apply(call.fun, FAdd(call.x, StepH))
        IN  IF fx = NaN \/ fxh = NaN THEN ret[1] = NaN
            ELSE IF ~IsFinite(fx) /\ ~IsFinite(fxh) /\ fx.s = fxh.s THEN ret[1] = NaN
            ELSE /\ IsFinite(ret[1])
                 /\ ret[1].m = HalfPiFx.m
                 /\ ret[1].s = IF IsFinite(fxh) THEN -fx.s ELSE fxh.s

\* np.reciprocal at 0: fun(x) is inf, the slope -inf, the angle -pi/2.
C12_Witness ==
    /\ SlopeReturned
    /\ call.fun = "reciprocal"
    /\ call.x = FZero
    /\ Apply(call.fun, call.x) = PosInf
    /\ ret[1] = FNeg(HalfPiFx)

(***************************************************************************)
(* Any one helper call: the inputs of the four helpers taken together.     *)
(***************************************************************************)
InitAnyHelper == InitColor \/ InitPhasor \/ InitExp \/ InitSlope

NextAnyHelper == ReturnColor \/ ReturnPhasor \/ ReturnExp \/ ReturnSlope

SpecAnyHelper == InitAnyHelper /\ [][NextAnyHelper]_vars

(***************************************************************************)
(* Claims about the helpers as total functions.                            *)
(***************************************************************************)
\* A colour between the anchors, at the scale of the returned colours.
IsColor(c) ==
    /\ Len(c) = 3
    /\ \A i \in 1..3 : 0 <= c[i] /\ c[i] <= 255 * (PI \div 2)

\* A number of Q(sqrt 2, sqrt 3) with its first-order term.
IsCoordinate(u) == Len(u.v) = 4 /\ Len(u.e) = 4

\* C13: every helper call on the documented domain (a base > 0 with any x,
\* any angle) returns a value of its kind and ends in no error: a finite
\* value and slope with the value positive, a finite angle, a point with two
\* coordinates, a colour; the wrapped angle of get_current_color lies in
\* [0, 2*PI) and falls in one of the four branches.
C13_HelpersTotal ==
    ret # <<>> =>
        CASE call.fn = "data_display" ->
                 /\ FLt(FZero, call.a)
                 /\ IsFinite(ret[1].val) /\ FLt(FZero, ret[1].val)
                 /\ IsFinite(ret[1].slope)
          [] call.fn = "get_slope_angle" -> IsFinite(ret[1])
          [] call.fn = "exp1j" -> IsCoordinate(ret[1].re) /\ IsCoordinate(ret[1].im)
          [] call.fn = "get_current_color" ->
                 LET r == call.angle % (2 * PI)
                 IN  /\ 0 <= r /\ r < 2 * PI
                     /\ \/ r <= PI \div 2
                        \/ PI \div 2 < r /\ r <= PI
                        \/ PI < r /\ r <= (3 * PI) \div 2
                        \/ (3 * PI) \div 2 < r /\ r < 2 * PI
                     /\ IsColor(ret[1])

\* A colour returned from the last branch, for a negative angle just below 0.
C13_Witness ==
    /\ call = [fn |-> "get_current_color", angle |-> -1]
    /\ ret # <<>>
    /\ Quadrant(call.angle % (2 * PI)) = 4
    /\ IsColor(ret[1])
    /\ ret[1] # AtScale(BLUE)

(***************************************************************************)
(* The scripts of construct(): what is added, played and waited for, in    *)
(* order.  A play holds its animations; an animation that puts a mobject   *)
(* on the screen, changes it or takes it off names the mobject and what it *)
(* shows.  ExponentialSlopes is not scripted here.                         *)
(***************************************************************************)
WHITE == <<255, 255, 255>>

\* MathTex / Text of a colour, and a text whose colour plays no part.
Tex(text, color) == [text |-> text, color |-> color]
Plain(text) == [text |-> text]
\* A mobject whose text, if it has one, plays no part: a plane, an arrow, a
\* redrawn group.
Drawn == [text |-> ""]

\* Animations.  Write, Create, FadeIn and GrowArrow bring the mobject in.
Write(mob, content) == [anim |-> "Write", mob |-> mob, content |-> content]
Create(mob) == [anim |-> "Create", mob |-> mob, content |-> Drawn]
FadeIn(mob) == [anim |-> "FadeIn", mob |-> mob, content |-> Drawn]
GrowArrow(mob) == [anim |-> "GrowArrow", mob |-> mob, content |-> Drawn]
FadeOut(mob) == [anim |-> "FadeOut", mob |-> mob]
Transform(mob, content) == [anim |-> "Transform", mob |-> mob, content |-> content]
Flash(mob) == [anim |-> "Flash", mob |-> mob]
Indicate(mob) == [anim |-> "Indicate", mob |-> mob]
\* tracker.animate.set_value(value)
AnimateSetValue(tracker, value) ==
    [anim |-> "set_value", tracker |-> tracker, value |-> value]

\* self.play(...), self.add(...) and self.wait(...)
Play(anims) == [op |-> "play", anims |-> anims]
Added(mob, content) == [anim |-> "add", mob |-> mob, content |-> content]
Add(mobs) == [op |-> "add", anims |-> [i \in 1..Len(mobs) |-> Added(mobs[i], Drawn)]]
AddText(mob, content) == [op |-> "add", anims |-> << Added(mob, content) >>]
Wait == [op |-> "wait", anims |-> <<>>]

\* The table with each step coloured as the quadrant it leaves.
steps_ColorOfDeparture ==
    << [angle |-> PI \div 2, label |-> "j", color |-> BLUE, desc |-> "1 \\times j = j"],
       [angle |-> PI, label |-> "-1", color |-> GREEN, desc |-> "j \\times j = -1"],
       [angle |-> (3 * PI) \div 2, label |-> "-j", color |-> RED,
        desc |-> "-1 \\times j = -j"],
       [angle |-> 2 * PI, label |-> "1", color |-> PURPLE, desc |-> "-j \\times j = 1"] >>

\* 03_ComplexJRotation.py: the table of the four discrete steps.
steps ==
    << [angle |-> PI \div 2, label |-> "j", color |-> GREEN, desc |-> "1 \\times j = j"],
       [angle |-> PI, label |-> "-1", color |-> RED, desc |-> "j \\times j = -1"],
       [angle |-> (3 * PI) \div 2, label |-> "-j", color |-> PURPLE,
        desc |-> "-1 \\times j = -j"],
       [angle |-> 2 * PI, label |-> "1", color |-> BLUE, desc |-> "-j \\times j = 1"] >>

\* The loop body with the label changed after the pause.
StepOfCycle_LabelAfterWait(k) ==
    << Play(<< AnimateSetValue("angle_tracker", steps[k].angle),
               Transform("step_math", Tex(steps[k].desc, steps[k].color)) >>),
       Wait,
       Play(<< Transform("tip_label", Tex(steps[k].label, steps[k].color)) >>) >>

\* The body of `for step in steps` for step k.
StepOfCycle(k) ==
    << Play(<< AnimateSetValue("angle_tracker", steps[k].angle),
               Transform("step_math", Tex(steps[k].desc, steps[k].color)) >>),
       Play(<< Transform("tip_label", Tex(steps[k].label, steps[k].color)) >>),
       Wait >>

ComplexJRotationScript ==
    << Add(<<"plane", "axes_labels">>),
       Play(<< Write("intro_text", Plain("Multiplying by j rotates the phasor by +90°.")) >>),
       Play(<< GrowArrow("phasor"), FadeIn("dot"), Write("tip_label", Tex("1", WHITE)) >>),
       AddText("step_math", Tex("", WHITE)) >>
    \o StepOfCycle(1) \o StepOfCycle(2) \o StepOfCycle(3) \o StepOfCycle(4)
    \o << Add(<<"circle_path">>),
          Play(<< AnimateSetValue("angle_tracker", 6 * PI),
                  Write("continuous_info",
                        Plain("Circular trajectory in the complex plane")) >>),
          Wait >>

\* The stops with the last one three turns away.
stops_ThreeTurns ==
    << [angle |-> PI \div 2, txt |-> "90° = j"],
       [angle |-> PI, txt |-> "180° = -1"],
       [angle |-> (3 * PI) \div 2, txt |-> "270° = -j"],
       [angle |-> 3 * TAU, txt |-> "360° = 1"] >>

\* 04_EulerLiveVisualization.py: the stops and their notes.
stops ==
    << [angle |-> PI \div 2, txt |-> "90° = j"],
       [angle |-> PI, txt |-> "180° = -1"],
       [angle |-> (3 * PI) \div 2, txt |-> "270° = -j"],
       [angle |-> TAU, txt |-> "360° = 1"] >>

\* The note of stop k: every turn of the loop makes a Text of its own.
Note(k) == <<"note 1", "note 2", "note 3", "note 4">>[k]

\* The loop body that leaves its note on the screen.
Stop_NoteKept(k) ==
    << Play(<< AnimateSetValue("t", stops[k].angle) >>),
       Play(<< Write(Note(k), Plain(stops[k].txt)), Flash("vector") >>),
       Wait,
       Play(<< Flash("vector") >>) >>

\* The body of `for angle, txt in stops` for stop k.
Stop(k) ==
    << Play(<< AnimateSetValue("t", stops[k].angle) >>),
       Play(<< Write(Note(k), Plain(stops[k].txt)), Flash("vector") >>),
       Wait,
       Play(<< FadeOut(Note(k)) >>) >>

EulerLiveVisualizationScript ==
    << Play(<< Write("title", Plain("e^{j\\theta} = \\cos(\\theta) + j\\sin(\\theta)")) >>),
       Play(<< Create("plane"), Create("circle"), Create("cos_axes"), Create("sin_axes"),
               Write("labels", Plain("Real Part (Cos), Imaginary Part (Sin)")) >>),
       Add(<<"vector", "real_line", "imag_line", "cos_curve", "sin_curve">>) >>
    \o Stop(1) \o Stop(2) \o Stop(3) \o Stop(4)
    \o << Play(<< FadeIn("background_rect"), FadeIn("identity_box"),
                  Write("identity", Plain("e^{j\\pi} + 1 = 0")) >>),
          Wait >>

\* The script with proof_text written before the base is animated.
EulerNumberScript_ProofFirst ==
    << Add(<<"title", "axes", "graph", "deriv_graph", "data_display", "identity_label">>),
       Play(<< Create("dot"), Create("tangent") >>),
       Wait,
       Play(<< AnimateSetValue("x_tracker", Ratio(12, 10)) >>),
       Wait,
       Play(<< Write("e_note", Plain("Transforming base to e...")) >>),
       Play(<< Write("proof_text", Tex("At a = e : f(x) and f'(x) merge!", GREEN)) >>),
       Play(<< AnimateSetValue("a_tracker", EulerE) >>),
       Wait,
       Play(<< Indicate("data_display"), FadeOut("e_note") >>),
       Play(<< AnimateSetValue("x_tracker", Ratio(-15, 10)) >>),
       Play(<< AnimateSetValue("x_tracker", Ratio(15, 10)) >>),
       Wait >>

\* 02_EulerNumber.py: the four phases.
EulerNumberScript ==
    << Add(<<"title", "axes", "graph", "deriv_graph", "data_display", "identity_label">>),
       Play(<< Create("dot"), Create("tangent") >>),
       Wait,
       Play(<< AnimateSetValue("x_tracker", Ratio(12, 10)) >>),
       Wait,
       Play(<< Write("e_note", Plain("Transforming base to e...")) >>),
       Play(<< AnimateSetValue("a_tracker", EulerE) >>),
       Wait,
       Play(<< Indicate("data_display"), FadeOut("e_note") >>),
       Play(<< Write("proof_text", Tex("At a = e : f(x) and f'(x) merge!", GREEN)) >>),
       Play(<< AnimateSetValue("x_tracker", Ratio(-15, 10)) >>),
       Play(<< AnimateSetValue("x_tracker", Ratio(15, 10)) >>),
       Wait >>

ScriptedScenes == {"EulerNumber", "ComplexJRotation", "EulerLiveVisualization"}

Script(name) ==
    CASE name = "EulerNumber" -> EulerNumberScript
      [] name = "ComplexJRotation" -> ComplexJRotationScript
      [] name = "EulerLiveVisualization" -> EulerLiveVisualizationScript

\* The scene once construct() has built its trackers: pc is the place in the
\* script, shown the mobjects on the screen with what they show.
Staged(name) ==
    [name |-> name, trackers |-> Trackers(name), step |-> 1, frame |-> 0,
     pc |-> 1, shown |-> [mob \in {} |-> Drawn]]

\* What an animation, once played, leaves on the screen.
Effect(shown, a) ==
    IF a.anim \in {"add", "Write", "Create", "FadeIn", "GrowArrow", "Transform"}
    THEN (a.mob :> a.content) @@ shown
    ELSE IF a.anim = "FadeOut" THEN [mob \in DOMAIN shown \ {a.mob} |-> shown[mob]]
    ELSE shown

RECURSIVE Effects(_, _, _)
Effects(shown, anims, i) ==
    IF i > Len(anims) THEN shown
    ELSE Effects(Effect(shown, anims[i]), anims, i + 1)

\* The set_value animations of a play.
SetValues(anims) == {i \in 1..Len(anims) : anims[i].anim = "set_value"}

\* The scene after a frame of a play that animates a tracker; with the last
\* frame the play is over.
Animated(s, d, moved) ==
    IF moved.frame = 0
    THEN [moved EXCEPT !.pc = s.pc + 1, !.shown = Effects(s.shown, d.anims, 1)]
    ELSE moved

\* The scene after the directive d of its script, or after one frame of it.
Directed(s, d) ==
    IF SetValues(d.anims) = {}
    THEN [s EXCEPT !.pc = s.pc + 1, !.shown = Effects(s.shown, d.anims, 1)]
    ELSE Animated(s, d, Played(s, d.anims[CHOOSE i \in SetValues(d.anims) : TRUE]))

InitConstruct ==
    /\ scene \in {Staged(name) : name \in ScriptedScenes}
    /\ call = NoCall
    /\ ret = <<>>

\* construct() goes on by one directive, or by one frame of a play.
Direct ==
    /\ ~HelperRunning
    /\ scene.pc <= Len(Script(scene.name))
    /\ scene' = Directed(scene, Script(scene.name)[scene.pc])
    /\ call' = NoCall
    /\ ret' = <<>>

NextConstruct == Redraw \/ ReturnScene \/ Direct

SpecConstruct == InitConstruct /\ [][NextConstruct]_vars

(***************************************************************************)
(* Claims about the order of the scenes.                                   *)
(***************************************************************************)
\* construct() of scene name stands at a self.wait().
AtWait(name) ==
    /\ scene.name = name
    /\ scene.pc <= Len(Script(name))
    /\ Script(name)[scene.pc].op = "wait"

\* The waits of its script the scene has reached, the one it stands at
\* counted in.
WaitsReached ==
    Cardinality({i \in 1..scene.pc :
                    i <= Len(Script(scene.name)) /\ Script(scene.name)[i].op = "wait"})

\* The element of the cycle a tip label names.
Named(text) ==
    CASE text = "1" -> CyclePoint(0)
      [] text = "j" -> CyclePoint(1)
      [] text = "-1" -> CyclePoint(2)
      [] text = "-j" -> CyclePoint(3)

\* The endpoint z is the element c of the cycle, up to the deviation of PI
\* from pi.
IsCyclePoint(z, c) ==
    /\ RealPoint(z) = <<AlgInt(c[1]), AlgInt(c[2])>>
    /\ WithinTolerance(z.re.e) /\ WithinTolerance(z.im.e)

\* C14: in ComplexJRotation the angle tracker starts at 0 with the tip label
\* 1; at the wait of the k-th discrete step the tracker is at k * PI/2 and the
\* tip label is j, -1, -j, 1 for k = 1, 2, 3, 4; at the last wait the tracker
\* is at 6 * PI and the label still 1; at every wait the label names the
\* element of the cycle that exp(1j * angle) is for the tracker's angle.
C14_LabelFollowsCycle ==
    scene.name = "ComplexJRotation" =>
        /\ scene.pc = 1 => scene.trackers.angle_tracker = 0
        /\ (scene.step = 1 /\ "tip_label" \in DOMAIN scene.shown) =>
               scene.shown["tip_label"].text = "1"
        /\ AtWait("ComplexJRotation") =>
               LET k == WaitsReached
                   angle == scene.trackers.angle_tracker
                   label == scene.shown["tip_label"].text
               IN  /\ angle = IF k <= 4 THEN k * (PI \div 2) ELSE 6 * PI
                   /\ label = <<"j", "-1", "-j", "1", "1">>[k]
                   /\ IsCyclePoint(ExpJ(angle), Named(label))

\* The wait after the third step: the tracker at 3 * PI/2, the label -j.
C14_Witness ==
    /\ AtWait("ComplexJRotation")
    /\ scene.trackers.angle_tracker = (3 * PI) \div 2
    /\ scene.shown["tip_label"].text = "-j"

\* The notes on the screen.
NotesShown == {k \in 1..Len(stops) : Note(k) \in DOMAIN scene.shown}

\* The directive construct() stands at animates a tracker.
MovesNext ==
    /\ scene.pc <= Len(Script(scene.name))
    /\ SetValues(Script(scene.name)[scene.pc].anims) # {}

\* The stops whose note has been faded out.
StopsCompleted ==
    {k \in 1..Len(stops) :
        \E i \in 1..(scene.pc - 1) :
            Script(scene.name)[i] = Play(<< FadeOut(Note(k)) >>)}

\* C15: in EulerLiveVisualization t is at the k-th stop's angle at the k-th
\* wait, for the stops PI/2, PI, 3*PI/2, 2*PI in this order; the note of a
\* stop is on the screen only with t at rest at that stop's angle and with no
\* move of t coming next; never two notes are on the screen; Euler's identity
\* is on the screen only with the four stops completed.
C15_NotesAtStops ==
    scene.name = "EulerLiveVisualization" =>
        /\ \A k \in NotesShown :
               /\ scene.shown[Note(k)].text = stops[k].txt
               /\ scene.trackers.t = stops[k].angle
               /\ scene.frame = 0
               /\ ~MovesNext
        /\ Cardinality(NotesShown) <= 1
        /\ (AtWait("EulerLiveVisualization") /\ WaitsReached <= Len(stops)) =>
               /\ scene.trackers.t = stops[WaitsReached].angle
               /\ NotesShown = {WaitsReached}
        /\ "identity" \in DOMAIN scene.shown =>
               /\ StopsCompleted = 1..Len(stops)
               /\ NotesShown = {}

\* The third stop: t at 3*PI/2 with its note written.
C15_Witness ==
    /\ AtWait("EulerLiveVisualization")
    /\ scene.trackers.t = (3 * PI) \div 2
    /\ NotesShown = {3}
    /\ scene.shown[Note(3)].text = "270° = -j"

(***************************************************************************)
(* The relationship status of EulerNumber: the second Text of the redrawn  *)
(* identity_label, made from the base tracker's value.                     *)
(***************************************************************************)
\* The status with the colour tested against a band ten times narrower.
identity_label_NarrowGreen(a) ==
    [text |-> IF FLt(FAbs(FSub(a, EulerE)), Ratio(1, 100))
              THEN "IDENTICAL" ELSE "PROPORTIONAL",
     color |-> IF FLt(FAbs(FSub(a, EulerE)), Ratio(1, 1000)) THEN GREEN ELSE WHITE]

\* Text("IDENTICAL" if abs(a - np.exp(1)) < 0.01 else "PROPORTIONAL",
\*      color=GREEN if abs(a - np.exp(1)) < 0.01 else WHITE)
identity_label(a) ==
    [text |-> IF FLt(FAbs(FSub(a, EulerE)), Ratio(1, 100))
              THEN "IDENTICAL" ELSE "PROPORTIONAL",
     color |-> IF FLt(FAbs(FSub(a, EulerE)), Ratio(1, 100)) THEN GREEN ELSE WHITE]

\* The status the redraw of identity_label shows in the scene.
Status == identity_label(scene.trackers.a_tracker).text

\* The play that animates the base: the second play step of the scene.
BaseStep == CHOOSE k \in 1..Len(Steps("EulerNumber")) :
                Steps("EulerNumber")[k].tracker = "a_tracker"

\* C16: in EulerNumber the status is PROPORTIONAL at the start and until the
\* play that animates the base begins (all of Phase 1); it is IDENTICAL in
\* every state after that play has ended; and proof_text is on the screen
\* only in states whose status is IDENTICAL.
C16_StatusFollowsBase ==
    scene.name = "EulerNumber" =>
        /\ (scene.step < BaseStep \/ (scene.step = BaseStep /\ scene.frame = 0)) =>
               /\ scene.trackers.a_tracker = FromInt(2)
               /\ Status = "PROPORTIONAL"
        /\ scene.step > BaseStep =>
               /\ scene.trackers.a_tracker = EulerE
               /\ Status = "IDENTICAL"
        /\ "proof_text" \in DOMAIN scene.shown => Status = "IDENTICAL"

\* proof_text written, the x sweep of Phase 4 under way, the status IDENTICAL.
C16_Witness ==
    /\ scene.name = "EulerNumber"
    /\ "proof_text" \in DOMAIN scene.shown
    /\ scene.shown["proof_text"].text = "At a = e : f(x) and f'(x) merge!"
    /\ scene.trackers.x_tracker = Ratio(-15, 10)
    /\ Status = "IDENTICAL"

\* The bases the status is made from: the grid of StatusSteps values per
\* hundredth within three hundredths of e either way, e itself and e +- 0.01
\* among them, and the base 2.0 the tracker starts at.
StatusSteps == 20
StatusBases ==
    {FAdd(EulerE, Ratio(i, 100 * StatusSteps)) : i \in (-3 * StatusSteps)..(3 * StatusSteps)}
        \cup {FromInt(2)}

InitStatus ==
    /\ call \in {[fn |-> "identity_label", a |-> a] : a \in StatusBases}
    /\ ret = <<>>
    /\ scene = NoScene

\* The redraw makes the status Text.
ReturnStatus ==
    /\ HelperRunning
    /\ ret' = <<identity_label(call.a)>>
    /\ UNCHANGED <<call, scene>>

NextStatus == ReturnStatus

SpecStatus == InitStatus /\ [][NextStatus]_vars

StatusReturned == call.fn = "identity_label" /\ ret # <<>>

\* C17: for every base a the status text is IDENTICAL exactly when
\* |a - e| < 0.01, strictly, and PROPORTIONAL otherwise; the colour is GREEN
\* exactly when the text is IDENTICAL and WHITE otherwise.
C17_TextAndColourAgree ==
    StatusReturned =>
        LET near == FLt(FAbs(FSub(call.a, EulerE)), Ratio(1, 100))
            label == ret[1]
        IN  /\ label.text = "IDENTICAL" <=> near
            /\ label.text = "PROPORTIONAL" <=> ~near
            /\ label.color = GREEN <=> label.text = "IDENTICAL"
            /\ label.color = WHITE <=> label.text # "IDENTICAL"

\* The base e - 0.01, at the edge of the band: PROPORTIONAL and WHITE.
C17_Witness ==
    /\ StatusReturned
    /\ call.a = FSub(EulerE, Ratio(1, 100))
    /\ ret[1] = [text |-> "PROPORTIONAL", color |-> WHITE]

\* The play of the continuous rotation: the one after the discrete steps.
ContinuousStep == Len(steps) + 1

\* C18: the continuous-rotation play of ComplexJRotation turns the phasor
\* through three full rotations: once it has ended the angle tracker stands
\* 6 * PI above where it stood when the play began.
C18_ThreeRotations ==
    (scene.name = "ComplexJRotation" /\ scene.step > ContinuousStep) =>
        scene.trackers.angle_tracker
            - StartValue("ComplexJRotation", "angle_tracker", ContinuousStep) = 3 * TAU

\* The colours of the steps table in the order of the waits, the last step's
\* colour standing for the continuous rotation as well.
RestColors == [k \in 1..(Len(steps) + 1) |-> steps[IF k <= Len(steps) THEN k ELSE Len(steps)].color]

\* C19: at every wait of ComplexJRotation, with the tracker at PI/2, PI,
\* 3*PI/2, 2*PI and at last 6*PI, get_current_color of the tracker's angle is
\* the colour the steps table gives to the equation and the tip label of that
\* step: GREEN, RED, PURPLE, BLUE, and BLUE again at 6*PI.
C19_RestColourIsStepColour ==
    AtWait("ComplexJRotation") =>
        /\ scene.shown["tip_label"].color = RestColors[WaitsReached]
        /\ scene.shown["step_math"].color = RestColors[WaitsReached]
        /\ RestColors = <<GREEN, RED, PURPLE, BLUE, BLUE>>
        /\ get_current_color(scene.trackers.angle_tracker)
               = AtScale(scene.shown["tip_label"].color)

\* The last wait: the tracker at 6*PI, the phasor BLUE as the label.
C19_Witness ==
    /\ AtWait("ComplexJRotation")
    /\ scene.trackers.angle_tracker = 6 * PI
    /\ scene.shown["tip_label"].color = BLUE
    /\ call = [fn |-> "get_current_color", angle |-> 6 * PI]
    /\ ret = <<AtScale(BLUE)>>

(***************************************************************************)
(* The projections of EulerLiveVisualization.  A point of the complex     *)
(* plane is kept in the plane's coordinates: the plane is centred at      *)
(* left_origin and n2p places the number re + j*im at                     *)
(* left_origin + unit * (re, im).                                         *)
(***************************************************************************)
left_origin == <<Exactly(0), Exactly(0)>>

\* A real number as the complex number n2p takes it for.
Complex(x) == [re |-> x, im |-> Exactly(0)]

\* plane.n2p(number)
n2p(number) == <<number.re, number.im>>

\* Line(left_origin, plane.n2p(np.exp(1j * t)))
vector(t) == [start |-> left_origin, end |-> n2p(ExpJ(t))]

\* Line(left_origin, plane.n2p(np.cos(t)))
real_line(t) == [start |-> left_origin, end |-> n2p(Complex(Cos(t)))]

\* The imaginary projection drawn from the origin.
imag_line_FromOrigin(t) == [start |-> left_origin, end |-> n2p(ExpJ(t))]

\* Line(plane.n2p(np.cos(t)), plane.n2p(np.exp(1j * t)))
imag_line(t) == [start |-> n2p(Complex(Cos(t))), end |-> n2p(ExpJ(t))]

InitProjection ==
    /\ call \in {[fn |-> "redraw", t |-> n] : n \in Angles}
    /\ ret = <<>>
    /\ scene = NoScene

\* The three lines are redrawn from t.get_value().
ReturnProjection ==
    /\ HelperRunning
    /\ ret' = <<[vector |-> vector(call.t), real_line |-> real_line(call.t),
                 imag_line |-> imag_line(call.t)]>>
    /\ UNCHANGED <<call, scene>>

NextProjection == ReturnProjection

SpecProjection == InitProjection /\ [][NextProjection]_vars

ProjectionReturned == call.fn = "redraw" /\ ret # <<>>

\* C20: for every t the real projection runs from the origin to (cos t, 0)
\* and the imaginary projection from (cos t, 0) to (cos t, sin t): it starts
\* where the real projection ends and ends at the tip of the vector.
C20_ProjectionsReachTip ==
    ProjectionReturned =>
        LET lines == ret[1]
        IN  /\ lines.real_line.start = left_origin
            /\ lines.real_line.end = <<Cos(call.t), Exactly(0)>>
            /\ lines.imag_line.start = <<Cos(call.t), Exactly(0)>>
            /\ lines.imag_line.end = <<Cos(call.t), Sin(call.t)>>
            /\ lines.imag_line.start = lines.real_line.end
            /\ lines.imag_line.end = lines.vector.end
            /\ lines.vector.start = left_origin

\* t = PI/3: the real projection ends at (1/2, 0), off the origin and off
\* the tip (1/2, sqrt(3)/2).
C20_Witness ==
    /\ ProjectionReturned
    /\ call.t = PI \div 3
    /\ ret[1].real_line.end[1].v = <<2, 0, 0, 0>>
    /\ ret[1].imag_line.end[2].v = <<0, 0, 2, 0>>
    /\ ret[1].imag_line.start # ret[1].imag_line.end

(***************************************************************************)
(* The waveform plots of EulerLiveVisualization: the axes and the interval *)
(* the redrawn curves are plotted over.                                    *)
(***************************************************************************)
\* Axes(x_range=[0, TAU, PI/2], ...)
cos_axes == [x_range |-> <<0, TAU, PI \div 2>>]
sin_axes == [x_range |-> <<0, TAU, PI \div 2>>]

\* cos_axes.plot(..., x_range=[0, t.get_value()]) and the same on sin_axes
cos_curve(t) == [axes |-> cos_axes, x_range |-> <<0, t>>]
sin_curve(t) == [axes |-> sin_axes, x_range |-> <<0, t>>]

\* The plotted interval of a curve lies inside the x range of its axes.
InsideAxes(curve) ==
    /\ curve.axes.x_range[1] <= curve.x_range[1]
    /\ curve.x_range[1] <= curve.x_range[2]
    /\ curve.x_range[2] <= curve.axes.x_range[2]

\* t is within [0, 2*PI] and both curves are plotted inside their axes.
TrackerInRange(s) ==
    /\ 0 <= s.trackers.t /\ s.trackers.t <= 2 * PI
    /\ InsideAxes(cos_curve(s.trackers.t))
    /\ InsideAxes(sin_curve(s.trackers.t))

\* C21: in EulerLiveVisualization t is within [0, 2*PI] before and after
\* every step, no step decreases it, and the interval [0, t] the cosine and
\* sine curves are plotted over lies inside the x range [0, 2*PI] of their
\* axes.
C21_TrackerWithinAxes ==
    [][ scene.name = "EulerLiveVisualization" =>
            /\ TrackerInRange(scene)
            /\ TrackerInRange(scene')
            /\ scene'.trackers.t >= scene.trackers.t ]_vars

\* Half way from PI to 3*PI/2: t between two stops, the play under way.
C21_Witness ==
    /\ scene.name = "EulerLiveVisualization"
    /\ scene.frame = 1
    /\ scene.trackers.t = PI + PI \div 4
    /\ cos_curve(scene.trackers.t).x_range = <<0, PI + PI \div 4>>

(***************************************************************************)
(* The dot and the tangent of EulerNumber.  A point of the axes is kept in *)
(* axis coordinates, c2p being the same affine map for all of them.  The   *)
(* trackers do not move within a redraw, so every get_val() of it returns  *)
(* the one val and every get_slope() the one slope.                        *)
(***************************************************************************)
\* axes.c2p(x, y)
c2p(x, y) == <<x, y>>

\* Dot(axes.c2p(x_tracker.get_value(), get_val()))
dot(x, val) == c2p(x, val)

\* The tangent with the rise left unscaled.
tangent_UnscaledRise(x, val, slope) ==
    [start |-> c2p(FSub(x, Ratio(8, 10)), FSub(val, slope)),
     end |-> c2p(FAdd(x, Ratio(8, 10)), FAdd(val, slope))]

\* Line(start=axes.c2p(x - 0.8, get_val() - get_slope() * 0.8),
\*      end=axes.c2p(x + 0.8, get_val() + get_slope() * 0.8))
tangent(x, val, slope) ==
    [start |-> c2p(FSub(x, Ratio(8, 10)), FSub(val, FMul(slope, Ratio(8, 10)))),
     end |-> c2p(FAdd(x, Ratio(8, 10)), FAdd(val, FMul(slope, Ratio(8, 10))))]

\* What one redraw draws and displays.
Redrawn(x, val, slope) ==
    [dot |-> dot(x, val), tangent |-> tangent(x, val, slope), slope |-> slope]

InitTangent ==
    /\ call \in {[fn |-> "tangent", a |-> a, x |-> x] : a \in Bases, x \in XGrid}
    /\ ret = <<>>
    /\ scene = NoScene

\* dot, tangent and the "Slope f'(x)" number are redrawn from the trackers.
ReturnTangent ==
    /\ HelperRunning
    /\ ret' = <<Redrawn(call.x, get_val(call.a, call.x), get_slope(call.a, call.x))>>
    /\ UNCHANGED <<call, scene>>

NextTangent == ReturnTangent

SpecTangent == InitTangent /\ [][NextTangent]_vars

TangentReturned == call.fn = "tangent" /\ ret # <<>>

\* The segment line is the tangent at (x, v) of slope s: its ends, its
\* midpoint and its slope, the last two within 1e-9.
IsTangentAt(line, x, v, s, rise) ==
    /\ line.start = <<FSub(x, Ratio(8, 10)), FSub(v, rise)>>
    /\ line.end = <<FAdd(x, Ratio(8, 10)), FAdd(v, rise)>>
    /\ Near(FDivInt(FAdd(line.start[1], line.end[1]), 2), x, Tol9)
    /\ Near(FDivInt(FAdd(line.start[2], line.end[2]), 2), v, Tol9)
    /\ Near(FDiv(FSub(line.end[2], line.start[2]), FSub(line.end[1], line.start[1])),
            s, Tol9)

\* C22: for every base a and every x the tangent runs from
\* (x - 0.8, a^x - 0.8 * s) to (x + 0.8, a^x + 0.8 * s) with s = ln(a) * a^x;
\* its midpoint is the dot's point (x, a^x) and its slope in axis coordinates
\* is the value displayed as the slope, both within 1e-9.
C22_TangentThroughDot ==
    TangentReturned =>
        /\ IsTangentAt(ret[1].tangent, call.x, get_val(call.a, call.x), ret[1].slope,
                       FMul(Ratio(8, 10), ret[1].slope))
        /\ ret[1].slope = get_slope(call.a, call.x)
        /\ ret[1].dot[1] = call.x
        /\ Near(FDivInt(FAdd(ret[1].tangent.start[2], ret[1].tangent.end[2]), 2),
                ret[1].dot[2], Tol9)

\* Base 2 at x = 1: the tangent spans x from 0.2 to 1.8 and rises.
C22_Witness ==
    /\ TangentReturned
    /\ call.a = FromInt(2)
    /\ call.x = FromInt(1)
    /\ ret[1].tangent.start[1] = Ratio(2, 10)
    /\ ret[1].tangent.end[1] = Ratio(18, 10)
    /\ FLt(ret[1].tangent.start[2], ret[1].tangent.end[2])
    /\ FLt(FOne, ret[1].slope)

====
